---- MODULE Spec2Model ----
(***************************************************************************)
(* Model of the TTL-aware SQLite cache store of cache-manager-bun-sqlite   *)
(* (bunSqliteStore, src/unnamed/part_003).  Times are epoch milliseconds,  *)
(* TTL arguments are seconds.  A JavaScript value is written as the string *)
(* naming it; a stored payload is the text or the bytes the codec makes.   *)
(***************************************************************************)
EXTENDS Integers, Sequences, FiniteSets, TLC

\* ---------------------------------------------------------------- bounds
MaxTicks == 2          \* clock advances in one behaviour
MaxBatch == 2          \* pairs in one mset, keys in one mget / mdel

\* ------------------------------------------------------- program constants
PurgeInterval == 60 * 60 * 1000     \* part_003:84
MsPerSecond == 1000                 \* part_003:66, 93, 128
NoTtlSentinel == 0 - 1              \* part_003:185
InitNow == 2 * 60 * 60 * 1000       \* the clock when the store is built
ConstructorTtl == 24 * 60 * 60      \* part_003:61, seconds

\* ------------------------------------------------------------ input sets
Keys == {"a", "b"}

VNum == "1"
VNaN == "NaN"
VNull == "null"
Undefined == "undefined"
Values == {VNum, VNaN, VNull}
VStr == "s"                 \* a string
VFn == "function"           \* a function
VCyclic == "cyclic"         \* an object that holds itself
AllValues == {VNum, VStr, VNull, Undefined, VFn, VCyclic}
Junk == "~junk~"            \* a payload no codec wrote
BatchPairs == {<<"a", VNum>>, <<"a", VNaN>>, <<"b", VNum>>, <<"b", VNull>>}

Omitted == <<>>
TtlSeconds == {0 - 1, 0, 1}
TtlArgs == {Omitted} \cup {<<s>> : s \in TtlSeconds}
DefaultTtls == {1}
Serializers == {"json", "cbor"}
MemoryPath == ":memory:"
FilePath == "/tmp/cache.db"
Paths == {MemoryPath, FilePath}
ClockSteps == {1, 999}
\* the waits around the purge interval (part_003:84): a millisecond short of
\* the hour, and the hour
LongClockSteps == {60 * 60 * 1000 - 1, 60 * 60 * 1000}

\* outcomes of a call
Ok == "ok"
NoCacheableError == "NoCacheableError"
SQLiteError == "SQLiteError"
CodecError == "CodecError"          \* what serialize or deserialize threw
InitializationError == "Failed to initialize SQLite store"   \* part_003:75

\* where the engine fails while a store is built
OpenFails == "open"                 \* new Database(path) throws
ExecFails == "exec"                 \* db.exec of the pragmas or the DDL throws
EngineFailures == {OpenFails, ExecFails}

\* ------------------------------------------------------------------ state
VARIABLES
    now,            \* the clock, what Date.now() returns
    nticks,         \* how often the clock has advanced
    serializer,     \* configuration: "json" or "cbor"
    defaultTtl,     \* configuration: default TTL, in milliseconds
    table,          \* the cache table: key -> row, for the keys that have a row
    predicate,      \* configuration: which isCacheable the store was given
    path,           \* configuration: the database file, or the in-memory marker
    lastPurgeTime,  \* the purge cursor
    peerOpen,       \* a second store was built with the same name and path
    peerTable,      \* the cache table of the second store's own database,
                    \* when the path gives every connection a database of its own
    peerPurgeTime,  \* the second store's purge cursor
    ret,            \* the call that completed last and what it returned
    unpurged,       \* the table of a reference store that is given the same
                    \* calls and never deletes a row for being expired
    pending,        \* the read calls in flight, each at the await it stands at
    boot            \* the class-based store: which of the two it is, how far
                    \* its construction has come, the calls its onOpen and
                    \* onReady callbacks got, and when its timer is due

config == <<serializer, defaultTtl, predicate, path>>

peer == <<peerOpen, peerTable, peerPurgeTime>>

\* what only the specifications about the reference store, about calls in
\* flight and about the class-based store change
aux == <<unpurged, pending, boot>>

vars == <<now, nticks, config, table, lastPurgeTime, peer, ret, aux>>

\* --------------------------------------------------------------- helpers
Range(s) == {s[i] : i \in 1..Len(s)}

SeqsUpTo(S, n) == UNION {[1..m -> S] : m \in 0..n}

\* the clock may advance by a millisecond between two reads inside one call
Drift == IF nticks < MaxTicks THEN {0, 1} ELSE {0}

\* ---------------------------------------------------------------- codecs
\* JSON.stringify: NaN has no JSON form and is written as null; a function
\* has none either and yields undefined, which is bound as SQL NULL.
JsonStringify(v) ==
    CASE v = VNum -> "1"
      [] v = VStr -> "\"s\""
      [] v = VNaN -> "null"
      [] v = VNull -> "null"
      [] OTHER -> "NULL"

JsonParse(p) ==
    CASE p = "1" -> VNum
      [] p = "\"s\"" -> VStr
      [] OTHER -> VNull

\* cbor-x encode / decode: one byte string per value
CborEncode(v) ==
    CASE v = VNum -> "x01"
      [] v = VStr -> "x6173"
      [] v = VNaN -> "xf97e00"
      [] v = VNull -> "xf6"
      [] OTHER -> "xf7"

CborDecode(p) ==
    CASE p = "x01" -> VNum
      [] p = "x6173" -> VStr
      [] p = "xf97e00" -> VNaN
      [] p = "xf6" -> VNull
      [] OTHER -> Undefined

Serialize(s, v) == IF s = "json" THEN JsonStringify(v) ELSE CborEncode(v)

Deserialize(s, p) == IF s = "json" THEN JsonParse(p) ELSE CborDecode(p)

\* serialize throws: JSON.stringify on a circular structure (TypeError), and
\* encode recursing into it without end (RangeError)
SerializeThrows(s, v) == v = VCyclic

\* deserialize throws: JSON.parse on text that is no JSON (SyntaxError)
DeserializeThrows(s, p) == s = "json" /\ p = Junk

\* ------------------------------------------------------- the store's parts
\* the predicate the store uses: the one given in the options, else the
\* default one
Predicates == {"default", "onlyStrings", "stringOrNull"}

\* mutant: the default predicate without its test for functions
isCacheableNoFunctionTest(v) ==
    CASE predicate = "onlyStrings" -> v = VStr
      [] predicate = "stringOrNull" -> v = VStr \/ v = VNull
      [] OTHER -> v # Undefined /\ v # VNull

\* mutant: a given predicate checked on top of the default one
isCacheableOnTopOfDefault(v) ==
    /\ v # Undefined /\ v # VNull /\ v # VFn
    /\ CASE predicate = "onlyStrings" -> v = VStr
          [] predicate = "stringOrNull" -> v = VStr \/ v = VNull
          [] OTHER -> TRUE

isCacheable(v) ==
    CASE predicate = "onlyStrings" -> v = VStr
      [] predicate = "stringOrNull" -> v = VStr \/ v = VNull
      [] OTHER -> v # Undefined /\ v # VNull /\ v # VFn

\* mutant: a negative ttl taken for an omitted one
TtlValueNegativeAsOmitted(ttl, dflt) ==
    IF ttl # Omitted /\ ttl[1] >= 0 THEN ttl[1] * MsPerSecond ELSE dflt

\* mutant: a ttl of 0 taken for an omitted one (ttl || default)
TtlValueFalsy(ttl, dflt) ==
    IF ttl # Omitted /\ ttl[1] # 0 THEN ttl[1] * MsPerSecond ELSE dflt

\* mutant: a negative ttl clamped to zero instead of dropping the write
TtlValueClamped(ttl, dflt) ==
    LET ms == IF ttl # Omitted THEN ttl[1] * MsPerSecond ELSE dflt
    IN  IF ms < 0 THEN 0 ELSE ms

TtlValue(ttl, dflt) == IF ttl # Omitted THEN ttl[1] * MsPerSecond ELSE dflt

Row(val, createdAt, expireAt) ==
    [val |-> val, created_at |-> createdAt, expire_at |-> expireAt]

\* mutant: INSERT OR IGNORE, an existing row is kept
UpsertIgnore(tbl, k, row) ==
    [x \in (DOMAIN tbl) \cup {k} |-> IF x \in DOMAIN tbl THEN tbl[x] ELSE row]

\* INSERT OR REPLACE of one row
Upsert(tbl, k, row) ==
    [x \in (DOMAIN tbl) \cup {k} |-> IF x = k THEN row ELSE tbl[x]]

\* mutant: the WHERE clause lost, every row goes
DeleteKeysAll(tbl, ks) == [x \in {} |-> tbl[x]]

\* DELETE ... WHERE key IN (ks)
DeleteKeys(tbl, ks) == [x \in (DOMAIN tbl) \ ks |-> tbl[x]]

\* mutant: the sweep also takes the rows that expire within the next second
DeleteExpiredEarly(tbl, t) ==
    [x \in {y \in DOMAIN tbl : ~(tbl[y].expire_at < t + MsPerSecond)} |-> tbl[x]]

\* DELETE ... WHERE expire_at < t
DeleteExpired(tbl, t) ==
    [x \in {y \in DOMAIN tbl : ~(tbl[y].expire_at < t)} |-> tbl[x]]

\* mutant: the sweep waits for more than the interval
ShouldPurgeAfterInterval(t, cursor) == t - cursor > PurgeInterval

ShouldPurge(t, cursor) == t - cursor >= PurgeInterval

\* mutant: the sweep deletes up to the old cursor, not up to the clock value
PurgedTableUpToCursor(tbl, cursor, t) ==
    IF ShouldPurge(t, cursor) THEN DeleteExpired(tbl, cursor) ELSE tbl

\* purgeExpired run at clock value t: the table and the cursor afterwards
PurgedTable(tbl, cursor, t) ==
    IF ShouldPurge(t, cursor) THEN DeleteExpired(tbl, t) ELSE tbl

PurgedCursor(cursor, t) == IF ShouldPurge(t, cursor) THEN t ELSE cursor

\* mutant: expire_at >= t, a row is still served at its expiry instant
SelectLiveInclusive(tbl, s, k, t) ==
    IF k \in DOMAIN tbl /\ tbl[k].expire_at >= t
    THEN Deserialize(s, tbl[k].val)
    ELSE Undefined

\* SELECT * ... WHERE key = k AND expire_at > t, then deserialize
SelectLive(tbl, s, k, t) ==
    IF k \in DOMAIN tbl /\ tbl[k].expire_at > t
    THEN Deserialize(s, tbl[k].val)
    ELSE Undefined

\* the SELECT of get finds a row whose payload deserialize throws on
SelectThrows(tbl, s, k, t) ==
    /\ k \in DOMAIN tbl
    /\ tbl[k].expire_at > t
    /\ DeserializeThrows(s, tbl[k].val)

\* mutant: an existing row keeps its expiry when it is the later one
SetRowKeepsLaterExpiry(tbl, s, key, value, ttlValue, t1, t2) ==
    Upsert(tbl, key,
           Row(Serialize(s, value), t2,
               IF key \in DOMAIN tbl /\ tbl[key].expire_at > t1 + ttlValue
               THEN tbl[key].expire_at ELSE t1 + ttlValue))

\* the row set's writes: one upsert, expiry from the first clock read t1,
\* created_at from the second clock read t2
SetRow(tbl, s, key, value, ttlValue, t1, t2) ==
    Upsert(tbl, key, Row(Serialize(s, value), t2, t1 + ttlValue))

\* mutant: the expiry filter of the SELECT lost
SelectLiveInNoFilter(tbl, s, ks, t) ==
    [i \in 1..Len(ks) |->
        IF ks[i] \in DOMAIN tbl THEN Deserialize(s, tbl[ks[i]].val) ELSE Undefined]

\* SELECT * ... WHERE key IN (ks) AND expire_at > t, then for each requested
\* key the first row found with that key, deserialized
SelectLiveIn(tbl, s, ks, t) ==
    LET rows == {k \in Range(ks) \cap DOMAIN tbl : tbl[k].expire_at > t}
    IN  [i \in 1..Len(ks) |->
            IF ks[i] \in rows THEN Deserialize(s, tbl[ks[i]].val) ELSE Undefined]

\* mutant: of two rows with one key in a VALUES list, the first stays
RECURSIVE InsertRowsFirstWins(_, _)
InsertRowsFirstWins(tbl, rows) ==
    IF rows = <<>> THEN tbl
    ELSE Upsert(InsertRowsFirstWins(tbl, Tail(rows)), Head(rows)[1], Head(rows)[2])

\* INSERT OR REPLACE of several rows, in the order of the VALUES list
RECURSIVE InsertRows(_, _)
InsertRows(tbl, rows) ==
    IF rows = <<>> THEN tbl
    ELSE InsertRows(Upsert(tbl, Head(rows)[1], Head(rows)[2]), Tail(rows))

\* what a call leaves for its caller: the call (op, keys, ttl), how it ended
\* (out, and msg: the value named in the NoCacheableError message), the values
\* it wrote, the clock value t it worked with (a write: the one the expiry
\* was computed from; mget: the one given to its SELECT; a get that waited
\* at its await: the one purgeExpired read when it was called), and the value
\* it resolved to
NoRet ==
    [op |-> "none", keys |-> <<>>, ttl |-> Omitted, written |-> <<>>,
     out |-> Ok, msg |-> Undefined,
     t |-> 0, res |-> Undefined, resSeq |-> <<>>, resKeys |-> {}, resNum |-> 0]

Call(op, ks, ttl) == [NoRet EXCEPT !.op = op, !.keys = ks, !.ttl = ttl]

\* the first value of a batch that the predicate rejects
FirstRejected(vs) ==
    vs[CHOOSE i \in 1..Len(vs) :
          /\ ~isCacheable(vs[i])
          /\ \A j \in 1..(i - 1) : isCacheable(vs[j])]

\* the callers that may have a read call in flight: two on the store and one
\* on the second store
Callers == {"c1", "c2", "p1"}
StoreOf(c) == IF c = "p1" THEN "peer" ELSE "store"

NoCall == [stage |-> "idle", op |-> "none", keys |-> <<>>, t |-> 0]
NonePending == [c \in Callers |-> NoCall]

\* the class-based store SqliteCacheStore: the one on sqlite3, whose
\* constructor returns before the database is open, and its port to
\* bun:sqlite, whose constructor opens it and makes the table
Variants == {"sqlite3", "bun:sqlite"}

\* what a callback is called with when there is no error: null, or nothing
NoError == "no error"

NotBuilt ==
    [variant |-> "none", stage |-> "none", onOpen |-> <<>>, onReady |-> <<>>,
     timerAt |-> 0]

\* ------------------------------------------------------------------- Init
Init ==
    /\ now = InitNow
    /\ nticks = 0
    /\ serializer \in Serializers
    /\ defaultTtl \in {d * MsPerSecond : d \in DefaultTtls}
    /\ predicate = "default"
    /\ path = MemoryPath
    /\ table = <<>>
    /\ lastPurgeTime = 0
    /\ peerOpen = FALSE
    /\ peerTable = <<>>
    /\ peerPurgeTime = 0
    /\ ret = NoRet
    /\ unpurged = <<>>
    /\ pending = NonePending
    /\ boot = NotBuilt

\* ---------------------------------------------------------------- actions
\* time passes between two calls
Tick ==
    /\ nticks < MaxTicks
    /\ \E d \in ClockSteps : now' = now + d
    /\ nticks' = nticks + 1
    /\ UNCHANGED <<config, peer, table, lastPurgeTime, ret>>

\* about an hour passes between two calls
TickLong ==
    /\ nticks < MaxTicks
    /\ \E d \in LongClockSteps : now' = now + d
    /\ nticks' = nticks + 1
    /\ UNCHANGED <<config, peer, table, lastPurgeTime, ret>>

set(key, value, ttl) ==
    /\ LET ttlValue == TtlValue(ttl, defaultTtl)
           call == Call("set", <<key>>, ttl)
       IN  IF ttlValue < 0
           THEN /\ ret' = call
                /\ UNCHANGED <<now, nticks, table>>
           ELSE IF ~isCacheable(value)
           THEN /\ ret' = [call EXCEPT !.out = NoCacheableError, !.msg = value]
                /\ UNCHANGED <<now, nticks, table>>
           ELSE IF SerializeThrows(serializer, value)
           THEN /\ ret' = [call EXCEPT !.out = CodecError]
                /\ UNCHANGED <<now, nticks, table>>
           ELSE \E d \in Drift :
                /\ table' = SetRow(table, serializer, key, value, ttlValue,
                                   now, now + d)
                /\ now' = now + d
                /\ nticks' = nticks + d
                /\ ret' = [call EXCEPT !.written = <<value>>, !.t = now]
    /\ UNCHANGED <<config, peer, lastPurgeTime>>

get(key) ==
    /\ \E d \in Drift :
        /\ table' = PurgedTable(table, lastPurgeTime, now)
        /\ lastPurgeTime' = PurgedCursor(lastPurgeTime, now)
        /\ now' = now + d
        /\ nticks' = nticks + d
        /\ ret' = IF SelectThrows(table', serializer, key, now + d)
                  THEN [Call("get", <<key>>, Omitted) EXCEPT !.out = CodecError]
                  ELSE [Call("get", <<key>>, Omitted) EXCEPT
                           !.res = SelectLive(table', serializer, key, now + d)]
    /\ UNCHANGED <<config, peer>>

\* mutant: the deletion runs the purge routine first
delAfterPurge(key) ==
    /\ table' = DeleteKeys(PurgedTable(table, lastPurgeTime, now), {key})
    /\ lastPurgeTime' = PurgedCursor(lastPurgeTime, now)
    /\ ret' = Call("del", <<key>>, Omitted)
    /\ UNCHANGED <<now, nticks, config, peer>>

del(key) ==
    /\ table' = DeleteKeys(table, {key})
    /\ ret' = Call("del", <<key>>, Omitted)
    /\ UNCHANGED <<now, nticks, config, peer, lastPurgeTime>>

\* mutant: the pairs written one by one, so those before a rejected value stay
msetRowByRow(pairs, ttl) ==
    /\ LET ttlValue == TtlValue(ttl, defaultTtl)
           ks == [i \in 1..Len(pairs) |-> pairs[i][1]]
           vs == [i \in 1..Len(pairs) |-> pairs[i][2]]
           call == Call("mset", ks, ttl)
       IN  IF ttlValue < 0
           THEN /\ ret' = call
                /\ UNCHANGED <<now, nticks, table>>
           ELSE IF \E i \in 1..Len(pairs) : ~isCacheable(vs[i])
           THEN /\ ret' = [call EXCEPT !.out = NoCacheableError,
                                       !.msg = FirstRejected(vs)]
                /\ table' = InsertRows(table,
                       [i \in 1..((CHOOSE n \in 1..Len(pairs) :
                                     /\ ~isCacheable(vs[n])
                                     /\ \A m \in 1..(n - 1) : isCacheable(vs[m])) - 1) |->
                           <<ks[i], Row(Serialize(serializer, vs[i]),
                                        now, now + ttlValue)>>])
                /\ UNCHANGED <<now, nticks>>
           ELSE IF pairs = <<>>
           THEN /\ ret' = [call EXCEPT !.out = SQLiteError]
                /\ UNCHANGED <<now, nticks, table>>
           ELSE \E d \in Drift :
                \* Date.now() of pair i: when the clock advances during the
                \* call, it does so before pair j
                \E j \in IF d = 0 THEN {1} ELSE 1..Len(pairs) :
                    /\ table' = InsertRows(table,
                           [i \in 1..Len(pairs) |->
                               <<ks[i], Row(Serialize(serializer, vs[i]),
                                            IF i >= j THEN now + d ELSE now,
                                            now + ttlValue)>>])
                    /\ now' = now + d
                    /\ nticks' = nticks + d
                    /\ ret' = [call EXCEPT !.written = vs, !.t = now]
    /\ UNCHANGED <<config, peer, lastPurgeTime>>

mset(pairs, ttl) ==
    /\ LET ttlValue == TtlValue(ttl, defaultTtl)
           ks == [i \in 1..Len(pairs) |-> pairs[i][1]]
           vs == [i \in 1..Len(pairs) |-> pairs[i][2]]
           call == Call("mset", ks, ttl)
       IN  IF ttlValue < 0
           THEN /\ ret' = call
                /\ UNCHANGED <<now, nticks, table>>
           ELSE IF \E i \in 1..Len(pairs) : ~isCacheable(vs[i])
           THEN /\ ret' = [call EXCEPT !.out = NoCacheableError,
                                       !.msg = FirstRejected(vs)]
                /\ UNCHANGED <<now, nticks, table>>
           ELSE IF pairs = <<>>
           THEN /\ ret' = [call EXCEPT !.out = SQLiteError]
                /\ UNCHANGED <<now, nticks, table>>
           ELSE \E d \in Drift :
                \* Date.now() of pair i: when the clock advances during the
                \* call, it does so before pair j
                \E j \in IF d = 0 THEN {1} ELSE 1..Len(pairs) :
                    /\ table' = InsertRows(table,
                           [i \in 1..Len(pairs) |->
                               <<ks[i], Row(Serialize(serializer, vs[i]),
                                            IF i >= j THEN now + d ELSE now,
                                            now + ttlValue)>>])
                    /\ now' = now + d
                    /\ nticks' = nticks + d
                    /\ ret' = [call EXCEPT !.written = vs, !.t = now]
    /\ UNCHANGED <<config, peer, lastPurgeTime>>

mget(ks) ==
    /\ \E d \in Drift :
        /\ table' = PurgedTable(table, lastPurgeTime, now)
        /\ lastPurgeTime' = PurgedCursor(lastPurgeTime, now)
        /\ now' = now + d
        /\ nticks' = nticks + d
        /\ ret' = IF \E i \in 1..Len(ks) :
                        SelectThrows(table', serializer, ks[i], now + d)
                  THEN [Call("mget", ks, Omitted) EXCEPT
                           !.t = now + d, !.out = CodecError]
                  ELSE [Call("mget", ks, Omitted) EXCEPT
                           !.t = now + d,
                           !.resSeq = SelectLiveIn(table', serializer, ks, now + d)]
    /\ UNCHANGED <<config, peer>>

\* mutant: a key without a row makes the call fail, and nothing is deleted
mdelFailsOnAbsentKey(ks) ==
    /\ table' = IF Range(ks) \subseteq DOMAIN table
                THEN DeleteKeys(table, Range(ks)) ELSE table
    /\ ret' = IF Range(ks) \subseteq DOMAIN table
              THEN Call("mdel", ks, Omitted)
              ELSE [Call("mdel", ks, Omitted) EXCEPT !.out = SQLiteError]
    /\ UNCHANGED <<now, nticks, config, peer, lastPurgeTime>>

mdel(ks) ==
    /\ table' = DeleteKeys(table, Range(ks))
    /\ ret' = Call("mdel", ks, Omitted)
    /\ UNCHANGED <<now, nticks, config, peer, lastPurgeTime>>

keys ==
    /\ table' = PurgedTable(table, lastPurgeTime, now)
    /\ lastPurgeTime' = PurgedCursor(lastPurgeTime, now)
    /\ ret' = [Call("keys", <<>>, Omitted) EXCEPT !.resKeys = DOMAIN table']
    /\ UNCHANGED <<now, nticks, config, peer>>

\* mutant: only the expired rows are removed
resetExpiredOnly ==
    /\ table' = DeleteExpired(table, now + 1)
    /\ ret' = Call("reset", <<>>, Omitted)
    /\ UNCHANGED <<now, nticks, config, peer, lastPurgeTime>>

reset ==
    /\ table' = DeleteKeys(table, DOMAIN table)
    /\ ret' = Call("reset", <<>>, Omitted)
    /\ UNCHANGED <<now, nticks, config, peer, lastPurgeTime>>

\* mutant: the row's whole lifetime returned, not what is left of it
ttlFnWholeLifetime(key) ==
    /\ \E d \in Drift :
        /\ table' = PurgedTable(table, lastPurgeTime, now)
        /\ lastPurgeTime' = PurgedCursor(lastPurgeTime, now)
        /\ now' = now + d
        /\ nticks' = nticks + d
        /\ ret' = [Call("ttl", <<key>>, Omitted) EXCEPT
                       !.resNum = IF key \in DOMAIN table'
                                  THEN table'[key].expire_at - table'[key].created_at
                                  ELSE NoTtlSentinel]
    /\ UNCHANGED <<config, peer>>

\* mutant: the row looked up without the purge routine run first
ttlFnWithoutPurge(key) ==
    /\ \E d \in Drift :
        /\ now' = now + d
        /\ nticks' = nticks + d
        /\ ret' = [Call("ttl", <<key>>, Omitted) EXCEPT
                       !.resNum = IF key \in DOMAIN table
                                  THEN table[key].expire_at - (now + d)
                                  ELSE NoTtlSentinel]
    /\ UNCHANGED <<config, peer, table, lastPurgeTime>>

ttlFn(key) ==
    /\ \E d \in Drift :
        /\ table' = PurgedTable(table, lastPurgeTime, now)
        /\ lastPurgeTime' = PurgedCursor(lastPurgeTime, now)
        /\ now' = now + d
        /\ nticks' = nticks + d
        /\ ret' = [Call("ttl", <<key>>, Omitted) EXCEPT
                       !.resNum = IF key \in DOMAIN table'
                                  THEN table'[key].expire_at - (now + d)
                                  ELSE NoTtlSentinel]
    /\ UNCHANGED <<config, peer>>

\* a row written past the store, through the database handle it exposes as
\* client: a payload that the store's codec did not make
clientInsert(key) ==
    /\ table' = Upsert(table, key, Row(Junk, now, now + defaultTtl))
    /\ ret' = Call("clientInsert", <<key>>, Omitted)
    /\ UNCHANGED <<now, nticks, config, peer, lastPurgeTime>>

\* ------------------------------------------- a second store, same name, path
\* mutant: the table made anew, CREATE TABLE without IF NOT EXISTS after a DROP
constructDropsTable ==
    /\ ~peerOpen
    /\ peerOpen' = TRUE
    /\ peerTable' = <<>>
    /\ peerPurgeTime' = 0
    /\ table' = <<>>
    /\ ret' = Call("construct", <<>>, Omitted)
    /\ UNCHANGED <<now, nticks, config, lastPurgeTime>>

\* bunSqliteStore called again with the same name and path: new Database(path)
\* opens the file the first store uses, or, for the in-memory marker, a new
\* and empty database of its own; CREATE TABLE IF NOT EXISTS leaves a table
\* that exists as it is
construct ==
    /\ ~peerOpen
    /\ peerOpen' = TRUE
    /\ peerTable' = <<>>
    /\ peerPurgeTime' = 0
    /\ table' = table
    /\ ret' = Call("construct", <<>>, Omitted)
    /\ UNCHANGED <<now, nticks, config, lastPurgeTime>>

\* mutant: the failure is reported and the store object is handed out all
\* the same
constructFailsButReturnsStore(stage) ==
    /\ ~peerOpen
    /\ peerOpen' = TRUE
    /\ ret' = [Call("construct", <<>>, Omitted) EXCEPT
                   !.out = IF stage = OpenFails THEN SQLiteError
                           ELSE InitializationError]
    /\ UNCHANGED <<now, nticks, config, table, lastPurgeTime,
                   peerTable, peerPurgeTime>>

\* bunSqliteStore called again while the engine fails: new Database(path)
\* throws and the call rejects with what it threw, or db.exec throws and the
\* call rejects with the error made from it; the return statement is not
\* reached either way
constructFails(stage) ==
    /\ ~peerOpen
    /\ peerOpen' = FALSE
    /\ ret' = [Call("construct", <<>>, Omitted) EXCEPT
                   !.out = IF stage = OpenFails THEN SQLiteError
                           ELSE InitializationError]
    /\ UNCHANGED <<now, nticks, config, table, lastPurgeTime,
                   peerTable, peerPurgeTime>>

\* the table the second store's statements run on
PeerDb == IF path = MemoryPath THEN peerTable ELSE table

\* the second store's statement has left tbl in its table
PeerDbBecomes(tbl) ==
    IF path = MemoryPath
    THEN peerTable' = tbl /\ table' = table
    ELSE table' = tbl /\ peerTable' = peerTable

\* set called on the second store
peerSet(key, value, ttl) ==
    /\ peerOpen
    /\ LET ttlValue == TtlValue(ttl, defaultTtl)
           call == Call("peerSet", <<key>>, ttl)
       IN  IF ttlValue < 0
           THEN /\ ret' = call
                /\ UNCHANGED <<now, nticks, table, peerTable>>
           ELSE IF ~isCacheable(value)
           THEN /\ ret' = [call EXCEPT !.out = NoCacheableError, !.msg = value]
                /\ UNCHANGED <<now, nticks, table, peerTable>>
           ELSE IF SerializeThrows(serializer, value)
           THEN /\ ret' = [call EXCEPT !.out = CodecError]
                /\ UNCHANGED <<now, nticks, table, peerTable>>
           ELSE \E d \in Drift :
                /\ PeerDbBecomes(SetRow(PeerDb, serializer, key, value, ttlValue,
                                         now, now + d))
                /\ now' = now + d
                /\ nticks' = nticks + d
                /\ ret' = [call EXCEPT !.written = <<value>>, !.t = now]
    /\ UNCHANGED <<config, lastPurgeTime, peerOpen, peerPurgeTime>>

\* get called on the second store
peerGet(key) ==
    /\ peerOpen
    /\ \E d \in Drift :
        LET swept == PurgedTable(PeerDb, peerPurgeTime, now)
        IN  /\ PeerDbBecomes(swept)
            /\ peerPurgeTime' = PurgedCursor(peerPurgeTime, now)
            /\ now' = now + d
            /\ nticks' = nticks + d
            /\ ret' = IF SelectThrows(swept, serializer, key, now + d)
                      THEN [Call("peerGet", <<key>>, Omitted) EXCEPT
                               !.out = CodecError]
                      ELSE [Call("peerGet", <<key>>, Omitted) EXCEPT
                               !.res = SelectLive(swept, serializer, key, now + d)]
    /\ UNCHANGED <<config, lastPurgeTime, peerOpen>>

\* -------------------------------------------------- the class-based store
\* new SqliteCacheStore(config) of the bun:sqlite port: new Database throws
\* out of the constructor; a db.exec that throws is caught and handed to
\* onOpen; else onReady and onOpen are called, onReady first; the timer is
\* set when the constructor gets that far
bunCreate(outcome) ==
    /\ boot.stage = "none"
    /\ boot' =
         CASE outcome = OpenFails ->
                [boot EXCEPT !.variant = "bun:sqlite", !.stage = "failed"]
           [] outcome = ExecFails ->
                [boot EXCEPT !.variant = "bun:sqlite", !.stage = "failed",
                             !.onOpen = Append(@, SQLiteError),
                             !.timerAt = now + PurgeInterval]
           [] OTHER ->
                [boot EXCEPT !.variant = "bun:sqlite", !.stage = "ready",
                             !.onReady = Append(@, NoError),
                             !.onOpen = Append(@, NoError),
                             !.timerAt = now + PurgeInterval]
    /\ ret' = [Call("create", <<>>, Omitted) EXCEPT
                   !.out = IF outcome = OpenFails THEN SQLiteError ELSE Ok]
    /\ UNCHANGED <<now, nticks, config, table, lastPurgeTime, peer,
                   unpurged, pending>>

\* new SqliteCacheStore(config) of the sqlite3 store: the database is opened
\* in the background, the timer is set and the constructor returns
sqlite3Create ==
    /\ boot.stage = "none"
    /\ boot' = [boot EXCEPT !.variant = "sqlite3", !.stage = "opening",
                            !.timerAt = now + PurgeInterval]
    /\ ret' = Call("create", <<>>, Omitted)
    /\ UNCHANGED <<now, nticks, config, table, lastPurgeTime, peer,
                   unpurged, pending>>

\* the callback of new sqlite3.Database: with an error, onOpen gets it and
\* nothing more is done; without, the pragmas and the DDL are queued and
\* onOpen gets null
sqlite3Opened(outcome) ==
    /\ boot.stage = "opening"
    /\ boot' = IF outcome = OpenFails
               THEN [boot EXCEPT !.stage = "failed",
                                 !.onOpen = Append(@, SQLiteError)]
               ELSE [boot EXCEPT !.stage = "creating",
                                 !.onOpen = Append(@, NoError)]
    /\ UNCHANGED <<now, nticks, config, table, lastPurgeTime, peer, ret,
                   unpurged, pending>>

\* the callback of db.exec: onReady gets its error or null
sqlite3ExecDone(outcome) ==
    /\ boot.stage = "creating"
    /\ boot' = IF outcome = ExecFails
               THEN [boot EXCEPT !.stage = "failed",
                                 !.onReady = Append(@, SQLiteError)]
               ELSE [boot EXCEPT !.stage = "ready",
                                 !.onReady = Append(@, NoError)]
    /\ UNCHANGED <<now, nticks, config, table, lastPurgeTime, peer, ret,
                   unpurged, pending>>

\* (options.ttl || this.default_ttl) * 1000: a ttl of 0 is falsy
ClassTtl(ttl, dflt) ==
    IF ttl # Omitted /\ ttl[1] # 0 THEN ttl[1] * MsPerSecond ELSE dflt

\* _serialize and _deserialize: what the codec throws is caught, and
\* undefined returned
SafeSerialize(s, v) == IF SerializeThrows(s, v) THEN Undefined ELSE Serialize(s, v)

SafeDeserialize(s, p) ==
    IF DeserializeThrows(s, p) THEN Undefined ELSE Deserialize(s, p)

\* what the store returns for a miss: undefined on sqlite3, null in the port
Miss == IF boot.variant = "sqlite3" THEN Undefined ELSE VNull

\* _fetch_all: SELECT * ... WHERE key IN (ks), without ORDER BY: the keys of
\* the rows it may return, a row for each key that has one, in any order
FetchAll(tbl, ks) ==
    LET found == Range(ks) \cap DOMAIN tbl
    IN  {f \in [1..Cardinality(found) -> found] :
            \A i, j \in 1..Cardinality(found) : f[i] = f[j] => i = j}

\* mget: the rows mapped, each to its value or, expired, to the miss
classMget(ks) ==
    /\ boot.stage = "ready"
    /\ \E rows \in FetchAll(table, ks) :
         ret' = [Call("classMget", ks, Omitted) EXCEPT
                    !.t = now,
                    !.resSeq = [i \in 1..Len(rows) |->
                        IF table[rows[i]].expire_at > now
                        THEN SafeDeserialize(serializer, table[rows[i]].val)
                        ELSE Miss]]
    /\ UNCHANGED <<now, nticks, config, table, lastPurgeTime, peer, aux>>

classGet(key) ==
    /\ boot.stage = "ready"
    /\ ret' = [Call("classGet", <<key>>, Omitted) EXCEPT
                   !.res = IF key \in DOMAIN table /\ table[key].expire_at > now
                           THEN SafeDeserialize(serializer, table[key].val)
                           ELSE Miss]
    /\ UNCHANGED <<now, nticks, config, table, lastPurgeTime, peer, aux>>

classSet(key, value, ttl) ==
    /\ boot.stage = "ready"
    /\ table' = Upsert(table, key,
                       Row(SafeSerialize(serializer, value), now,
                           now + ClassTtl(ttl, defaultTtl)))
    /\ ret' = [Call("classSet", <<key>>, ttl) EXCEPT
                   !.written = <<value>>, !.t = now]
    /\ UNCHANGED <<now, nticks, config, lastPurgeTime, peer, aux>>

\* mset: one statement for the pairs, which is no SQL when there is none
classMset(pairs, ttl) ==
    /\ boot.stage = "ready"
    /\ IF pairs = <<>>
       THEN /\ ret' = [Call("classMset", <<>>, ttl) EXCEPT !.out = SQLiteError]
            /\ table' = table
       ELSE /\ table' = InsertRows(table,
                  [i \in 1..Len(pairs) |->
                      <<pairs[i][1],
                        Row(SafeSerialize(serializer, pairs[i][2]), now,
                            now + ClassTtl(ttl, defaultTtl))>>])
            /\ ret' = [Call("classMset", [i \in 1..Len(pairs) |-> pairs[i][1]], ttl)
                           EXCEPT !.written = [i \in 1..Len(pairs) |-> pairs[i][2]],
                                  !.t = now]
    /\ UNCHANGED <<now, nticks, config, lastPurgeTime, peer, aux>>

classDel(key) ==
    /\ boot.stage = "ready"
    /\ table' = DeleteKeys(table, {key})
    /\ ret' = Call("classDel", <<key>>, Omitted)
    /\ UNCHANGED <<now, nticks, config, lastPurgeTime, peer, aux>>

classMdel(ks) ==
    /\ boot.stage = "ready"
    /\ table' = DeleteKeys(table, Range(ks))
    /\ ret' = Call("classMdel", ks, Omitted)
    /\ UNCHANGED <<now, nticks, config, lastPurgeTime, peer, aux>>

classReset ==
    /\ boot.stage = "ready"
    /\ table' = <<>>
    /\ ret' = Call("classReset", <<>>, Omitted)
    /\ UNCHANGED <<now, nticks, config, lastPurgeTime, peer, aux>>

classKeys ==
    /\ boot.stage = "ready"
    /\ ret' = [Call("classKeys", <<>>, Omitted) EXCEPT !.resKeys = DOMAIN table]
    /\ UNCHANGED <<now, nticks, config, table, lastPurgeTime, peer, aux>>

\* the timer set by the constructor comes due: purgeExpired, which deletes
\* the expired rows when there is a table to delete from
classPurgeExpired ==
    /\ boot.timerAt > 0 /\ now >= boot.timerAt
    /\ table' = IF boot.stage = "ready" THEN DeleteExpired(table, now) ELSE table
    /\ boot' = [boot EXCEPT !.timerAt = @ + PurgeInterval]
    /\ UNCHANGED <<now, nticks, config, lastPurgeTime, peer, ret,
                   unpurged, pending>>

\* ------------------------------------------------- read calls in flight
\* the purge cursor of the store that caller c calls
CursorOf(c) == IF StoreOf(c) = "peer" THEN peerPurgeTime ELSE lastPurgeTime

\* the store is inside purgeExpired, between Date.now() and the DELETE: its
\* thread runs that to the end before any other call of the same store, while
\* the other store, in a process of its own, may run statements meanwhile
InPurge(st) ==
    \E c \in Callers : StoreOf(c) = st /\ pending[c].stage = "sweep"

\* get or mget called by c: purgeExpired reads the clock and decides
beginRead(c, op, ks) ==
    /\ pending[c].stage = "idle"
    /\ StoreOf(c) = "peer" => peerOpen
    /\ ~InPurge(StoreOf(c))
    /\ pending' = [pending EXCEPT ![c] =
           [stage |-> IF ShouldPurge(now, CursorOf(c)) THEN "sweep" ELSE "select",
            op |-> op, keys |-> ks, t |-> now]]
    /\ UNCHANGED <<now, nticks, config, table, lastPurgeTime, peer, ret,
                   unpurged, boot>>

\* the DELETE of purgeExpired, the cursor set, and the await reached
sweep(c) ==
    /\ pending[c].stage = "sweep"
    /\ table' = DeleteExpired(table, pending[c].t)
    /\ IF StoreOf(c) = "peer"
       THEN peerPurgeTime' = pending[c].t /\ lastPurgeTime' = lastPurgeTime
       ELSE lastPurgeTime' = pending[c].t /\ peerPurgeTime' = peerPurgeTime
    /\ pending' = [pending EXCEPT ![c].stage = "select"]
    /\ UNCHANGED <<now, nticks, config, peerOpen, peerTable, ret, unpurged, boot>>

\* mutant: the SELECT bound to the clock value that purgeExpired read
selectAtPurgeClock(c) ==
    /\ pending[c].stage = "select"
    /\ ~InPurge(StoreOf(c))
    /\ ret' = IF pending[c].op = "get"
              THEN [Call("get", pending[c].keys, Omitted) EXCEPT
                       !.res = SelectLive(table, serializer,
                                          pending[c].keys[1], pending[c].t)]
              ELSE [Call("mget", pending[c].keys, Omitted) EXCEPT
                       !.t = pending[c].t,
                       !.resSeq = SelectLiveIn(table, serializer,
                                               pending[c].keys, pending[c].t)]
    /\ pending' = [pending EXCEPT ![c] = NoCall]
    /\ UNCHANGED <<now, nticks, config, table, lastPurgeTime, peer, unpurged, boot>>

\* the call resumed after its await: the SELECT with the clock as it is now
select(c) ==
    /\ pending[c].stage = "select"
    /\ ~InPurge(StoreOf(c))
    /\ ret' = IF pending[c].op = "get"
              THEN [Call("get", pending[c].keys, Omitted) EXCEPT
                       !.t = pending[c].t,
                       !.res = SelectLive(table, serializer,
                                          pending[c].keys[1], now)]
              ELSE [Call("mget", pending[c].keys, Omitted) EXCEPT
                       !.t = now,
                       !.resSeq = SelectLiveIn(table, serializer,
                                               pending[c].keys, now)]
    /\ pending' = [pending EXCEPT ![c] = NoCall]
    /\ UNCHANGED <<now, nticks, config, table, lastPurgeTime, peer, unpurged, boot>>

\* ---------------------------------------------------------- specifications
\* the single-key operations, the deletions, the enumeration and the reset
Next ==
    \/ Tick /\ UNCHANGED aux
    \/ \E k \in Keys, v \in Values, ttl \in TtlArgs : set(k, v, ttl) /\ UNCHANGED aux
    \/ \E k \in Keys : get(k) /\ UNCHANGED aux
    \/ \E k \in Keys : del(k) /\ UNCHANGED aux
    \/ \E ks \in SeqsUpTo(Keys, MaxBatch) : mdel(ks) /\ UNCHANGED aux
    \/ keys /\ UNCHANGED aux
    \/ reset /\ UNCHANGED aux
    \/ \E k \in Keys : ttlFn(k) /\ UNCHANGED aux

Spec == Init /\ [][Next]_vars

\* the batch write and the batch read, next to get, on a store built with the
\* default serializer
InitBatch == Init /\ serializer = "cbor"

NextBatch ==
    \/ \E ps \in SeqsUpTo(BatchPairs, MaxBatch), ttl \in TtlArgs : mset(ps, ttl) /\ UNCHANGED aux
    \/ \E ks \in SeqsUpTo(Keys, MaxBatch) : mget(ks) /\ UNCHANGED aux
    \/ \E k \in Keys : get(k) /\ UNCHANGED aux

SpecBatch == InitBatch /\ [][NextBatch]_vars

\* set and get over values of every kind, on a store built with the default
\* predicate or with one of its own
InitValues ==
    /\ now = InitNow
    /\ nticks = 0
    /\ serializer \in Serializers
    /\ defaultTtl \in {d * MsPerSecond : d \in DefaultTtls}
    /\ predicate \in Predicates
    /\ path = MemoryPath
    /\ table = <<>>
    /\ lastPurgeTime = 0
    /\ peerOpen = FALSE
    /\ peerTable = <<>>
    /\ peerPurgeTime = 0
    /\ ret = NoRet
    /\ unpurged = <<>>
    /\ pending = NonePending
    /\ boot = NotBuilt

NextValues ==
    \/ \E v \in AllValues, ttl \in TtlArgs : set("a", v, ttl) /\ UNCHANGED aux
    \/ get("a") /\ UNCHANGED aux

SpecValues == InitValues /\ [][NextValues]_vars

\* stores built with a ttl option of every sign, and with none
TtlOptions == {Omitted} \cup {<<s>> : s \in TtlSeconds}

ConfiguredTtl(opt) ==
    (IF opt = Omitted THEN ConstructorTtl ELSE opt[1]) * MsPerSecond

DefaultPairs == {<<"b", VNum>>}

InitDefault ==
    /\ now = InitNow
    /\ nticks = 0
    /\ serializer = "cbor"
    /\ defaultTtl \in {ConfiguredTtl(opt) : opt \in TtlOptions}
    /\ predicate = "default"
    /\ path = MemoryPath
    /\ table = <<>>
    /\ lastPurgeTime = 0
    /\ peerOpen = FALSE
    /\ peerTable = <<>>
    /\ peerPurgeTime = 0
    /\ ret = NoRet
    /\ unpurged = <<>>
    /\ pending = NonePending
    /\ boot = NotBuilt

NextDefault ==
    \/ Tick /\ UNCHANGED aux
    \/ \E ttl \in TtlArgs : set("a", VNum, ttl) /\ UNCHANGED aux
    \/ \E ps \in SeqsUpTo(DefaultPairs, MaxBatch), ttl \in TtlArgs : mset(ps, ttl) /\ UNCHANGED aux
    \/ get("a") /\ UNCHANGED aux

SpecDefault == InitDefault /\ [][NextDefault]_vars

\* reads of rows that were not written by the store, on a store built with
\* the json serializer
InitJunk == Init /\ serializer = "json"

NextJunk ==
    \/ Tick /\ UNCHANGED aux
    \/ \E k \in Keys : clientInsert(k) /\ UNCHANGED aux
    \/ \E k \in Keys, ttl \in TtlArgs : set(k, VNum, ttl) /\ UNCHANGED aux
    \/ \E k \in Keys : get(k) /\ UNCHANGED aux
    \/ \E ks \in SeqsUpTo(Keys, MaxBatch) : mget(ks) /\ UNCHANGED aux

SpecJunk == InitJunk /\ [][NextJunk]_vars

\* a second store built while the engine may fail, and the calls made on the
\* stores there are
NextInit ==
    \/ construct /\ UNCHANGED aux
    \/ \E stage \in EngineFailures : constructFails(stage) /\ UNCHANGED aux
    \/ \E ttl \in TtlArgs : set("a", VNum, ttl) /\ UNCHANGED aux
    \/ get("a") /\ UNCHANGED aux
    \/ \E ttl \in TtlArgs : peerSet("a", VStr, ttl) /\ UNCHANGED aux
    \/ peerGet("a") /\ UNCHANGED aux

\* two stores built with the same name and path, on a file and in memory
PeerValues == {VNum, VStr}

InitPeers ==
    /\ now = InitNow
    /\ nticks = 0
    /\ serializer = "cbor"
    /\ defaultTtl \in {d * MsPerSecond : d \in DefaultTtls}
    /\ predicate = "default"
    /\ path \in Paths
    /\ table = <<>>
    /\ lastPurgeTime = 0
    /\ peerOpen = FALSE
    /\ peerTable = <<>>
    /\ peerPurgeTime = 0
    /\ ret = NoRet
    /\ unpurged = <<>>
    /\ pending = NonePending
    /\ boot = NotBuilt

NextPeers ==
    \/ Tick /\ UNCHANGED aux
    \/ construct /\ UNCHANGED aux
    \/ \E v \in PeerValues, ttl \in TtlArgs : set("a", v, ttl) /\ UNCHANGED aux
    \/ get("a") /\ UNCHANGED aux
    \/ \E v \in PeerValues, ttl \in TtlArgs : peerSet("a", v, ttl) /\ UNCHANGED aux
    \/ peerGet("a") /\ UNCHANGED aux

SpecPeers == InitPeers /\ [][NextPeers]_vars

SpecInit == InitPeers /\ [][NextInit]_vars

\* every operation of a store next to waits of a millisecond and of about an
\* hour, on a store built with the default serializer
PurgeTtls == {<<0>>, <<1>>}
PurgeBatches == {<< <<"b", VNum>> >>, << <<"a", VNum>>, <<"b", VNum>> >>}
PurgeKeyLists == {<<"a">>, <<"b", "a">>}

NextPurge ==
    \/ Tick /\ UNCHANGED aux
    \/ TickLong /\ UNCHANGED aux
    \/ \E k \in Keys, ttl \in PurgeTtls : set(k, VNum, ttl) /\ UNCHANGED aux
    \/ \E ps \in PurgeBatches, ttl \in PurgeTtls : mset(ps, ttl) /\ UNCHANGED aux
    \/ \E k \in Keys : get(k) /\ UNCHANGED aux
    \/ \E ks \in PurgeKeyLists : mget(ks) /\ UNCHANGED aux
    \/ keys /\ UNCHANGED aux
    \/ \E k \in Keys : del(k) /\ UNCHANGED aux
    \/ \E ks \in PurgeKeyLists : mdel(ks) /\ UNCHANGED aux
    \/ reset /\ UNCHANGED aux
    \/ \E k \in Keys : ttlFn(k) /\ UNCHANGED aux

SpecPurge == InitBatch /\ [][NextPurge]_vars

\* the same calls given to the store and to a reference store that runs the
\* statements of set, mset, del, mdel and reset and never the DELETE of
\* purgeExpired
RefValues == {VNum}
RefBatches == {<< <<"b", VStr>> >>, << <<"b", VStr>>, <<"a", VStr>> >>}

\* INSERT OR REPLACE of the rows the call wrote, when it wrote
RefWrite(ks) ==
    unpurged' =
        IF ret'.out = Ok /\ TtlValue(ret'.ttl, defaultTtl) >= 0
        THEN [k \in DOMAIN unpurged \cup Range(ks) |->
                 IF k \in Range(ks) THEN table'[k] ELSE unpurged[k]]
        ELSE unpurged

RefDelete(ks) == unpurged' = DeleteKeys(unpurged, ks)

NextRef ==
    \/ Tick /\ UNCHANGED aux
    \/ TickLong /\ UNCHANGED aux
    \/ \E k \in Keys, v \in RefValues, ttl \in PurgeTtls :
          set(k, v, ttl) /\ RefWrite(<<k>>) /\ UNCHANGED <<pending, boot>>
    \/ \E ps \in RefBatches, ttl \in PurgeTtls :
          /\ mset(ps, ttl)
          /\ RefWrite([i \in 1..Len(ps) |-> ps[i][1]])
          /\ UNCHANGED <<pending, boot>>
    \/ \E k \in Keys : get(k) /\ UNCHANGED aux
    \/ \E ks \in PurgeKeyLists : mget(ks) /\ UNCHANGED aux
    \/ keys /\ UNCHANGED aux
    \/ \E k \in Keys : del(k) /\ RefDelete({k}) /\ UNCHANGED <<pending, boot>>
    \/ \E ks \in PurgeKeyLists :
          mdel(ks) /\ RefDelete(Range(ks)) /\ UNCHANGED <<pending, boot>>
    \/ reset /\ unpurged' = <<>> /\ UNCHANGED <<pending, boot>>
    \/ \E k \in Keys : ttlFn(k) /\ UNCHANGED aux

SpecRef == InitBatch /\ [][NextRef]_vars

\* the class-based store: its construction with every outcome of the engine,
\* its operations, and its timer
ClassTtls == {Omitted, <<0>>, <<1>>}
ClassBatches == {<<>>, << <<"b", VNum>> >>, << <<"a", VStr>>, <<"b", VNum>> >>}

NextClass ==
    \/ \E outcome \in {Ok} \cup EngineFailures :
          bunCreate(outcome)
    \/ sqlite3Create
    \/ \E outcome \in {Ok, OpenFails} : sqlite3Opened(outcome)
    \/ \E outcome \in {Ok, ExecFails} : sqlite3ExecDone(outcome)
    \/ Tick /\ UNCHANGED aux
    \/ TickLong /\ UNCHANGED aux
    \/ \E k \in Keys, ttl \in ClassTtls : classSet(k, VNum, ttl)
    \/ \E ps \in ClassBatches, ttl \in ClassTtls : classMset(ps, ttl)
    \/ \E k \in Keys : classGet(k)
    \/ \E ks \in SeqsUpTo(Keys, MaxBatch) : classMget(ks)
    \/ \E k \in Keys : classDel(k)
    \/ \E ks \in SeqsUpTo(Keys, MaxBatch) : classMdel(ks)
    \/ classReset
    \/ classKeys
    \/ classPurgeExpired

SpecClass == InitBatch /\ [][NextClass]_vars

\* two stores, on one file or each in memory, with waits of a millisecond and
\* of about an hour between their writes and reads
NextCursors ==
    \/ Tick /\ UNCHANGED aux
    \/ TickLong /\ UNCHANGED aux
    \/ construct /\ UNCHANGED aux
    \/ \E ttl \in PurgeTtls : set("a", VNum, ttl) /\ UNCHANGED aux
    \/ \E ttl \in PurgeTtls : mset(<< <<"a", VNum>> >>, ttl) /\ UNCHANGED aux
    \/ get("a") /\ UNCHANGED aux
    \/ keys /\ UNCHANGED aux
    \/ \E ttl \in PurgeTtls : peerSet("a", VNum, ttl) /\ UNCHANGED aux
    \/ peerGet("a") /\ UNCHANGED aux

SpecCursors == InitPeers /\ [][NextCursors]_vars

\* two stores built on one database file, read calls of several callers in
\* flight on them, and writes through either store in between
InitConcurrent ==
    /\ now = InitNow
    /\ nticks = 0
    /\ serializer = "cbor"
    /\ defaultTtl \in {d * MsPerSecond : d \in DefaultTtls}
    /\ predicate = "default"
    /\ path = FilePath
    /\ table = <<>>
    /\ lastPurgeTime = 0
    /\ peerOpen = TRUE
    /\ peerTable = <<>>
    /\ peerPurgeTime = 0
    /\ ret = NoRet
    /\ unpurged = <<>>
    /\ pending = NonePending
    /\ boot = NotBuilt

\* the read call each caller makes, again and again
ReadCallOf(c) ==
    IF c = "c2" THEN <<"mget", <<"a", "b">> >> ELSE <<"get", <<"a">> >>

NextConcurrent ==
    \/ Tick /\ UNCHANGED aux
    \/ \E c \in Callers : beginRead(c, ReadCallOf(c)[1], ReadCallOf(c)[2])
    \/ \E c \in Callers : sweep(c)
    \/ \E c \in Callers : select(c)
    \/ \E ttl \in PurgeTtls :
          /\ ~InPurge("store")
          /\ set("a", VNum, ttl)
          /\ RefWrite(<<"a">>)
          /\ UNCHANGED <<pending, boot>>
    \/ /\ ~InPurge("store")
       /\ del("a")
       /\ RefDelete({"a"})
       /\ UNCHANGED <<pending, boot>>
    \/ /\ ~InPurge("peer")
       /\ peerSet("b", VNum, <<1>>)
       /\ RefWrite(<<"b">>)
       /\ UNCHANGED <<pending, boot>>

SpecConcurrent == InitConcurrent /\ [][NextConcurrent]_vars

\* ------------------------------------------------- the store under reads
\* A store whose clock keeps advancing and on which read-path calls keep
\* being issued: the sweep has no timer of its own (part_003:82-90), it runs
\* inside get, mget, keys and ttl (112, 147, 167, 179).
\* The clock of this store advances by about an hour at a time, as far as
\* LiveHorizon past the construction, whatever the calls made meanwhile.
LiveHorizon == PurgeInterval

ClockAdvances ==
    /\ now < InitNow + LiveHorizon
    /\ \E d \in LongClockSteps : now' = now + d
    /\ UNCHANGED <<nticks, config, peer, table, lastPurgeTime, ret, aux>>

ReadPath ==
    \/ \E k \in Keys : get(k) /\ UNCHANGED aux
    \/ mget(<<"a">>) /\ UNCHANGED aux
    \/ keys /\ UNCHANGED aux
    \/ ttlFn("a") /\ UNCHANGED aux

NextLive ==
    \/ ClockAdvances
    \/ ReadPath
    \/ \E k \in Keys, ttl \in PurgeTtls :
          set(k, VNum, ttl) /\ RefWrite(<<k>>) /\ UNCHANGED <<pending, boot>>
    \/ del("a") /\ RefDelete({"a"}) /\ UNCHANGED <<pending, boot>>

SpecLive ==
    /\ InitBatch
    /\ [][NextLive]_vars
    /\ WF_vars(ClockAdvances)
    /\ WF_vars(ReadPath)

\* =================================================================== claims
\* Which call a step is.  A step that leaves ret alone is a Tick; a step of a
\* call is recognised by the call's action, given the arguments ret' records.
GetStep == ret'.op = "get" /\ get(ret'.keys[1])
DelStep == ret'.op = "del" /\ del(ret'.keys[1])
ResetStep == ret'.op = "reset" /\ reset
KeysStep == ret'.op = "keys" /\ keys
TtlStep == ret'.op = "ttl" /\ ttlFn(ret'.keys[1])
SetStep == ret'.op = "set" /\ (nticks' = nticks \/ table' # table)

\* the call recorded in r wrote its value(s)
Wrote(r) == r.written # <<>>
\* the call recorded in r was given a ttl argument below zero
NegativeTtl(r) == r.ttl # Omitted /\ r.ttl[1] < 0
\* the next step is a get of the key of the call ret records
GetOfSameKey == GetStep /\ ret'.keys = ret.keys
\* no more than the clock's in-call advance lies between the write ret
\* records and the end of this step
Immediately == now' <= ret.t + 2

\* ---- C1 (as stated): after set(k, v) with the default TTL and an accepted
\* v, the get(k) that follows immediately returns v.
C1_SetGetReturnsValue ==
    [][(ret.op = "set" /\ Wrote(ret) /\ ret.ttl = Omitted
            /\ GetOfSameKey /\ Immediately)
        => ret'.res = ret.written[1]]_vars

\* ---- C1 (amended): the get returns v for every accepted v that the
\* configured codec can represent: every v under cbor, every v but NaN under
\* json; for NaN under json it returns null.
C1_SetGetReturnsCodecImage ==
    [][(ret.op = "set" /\ Wrote(ret) /\ ret.ttl = Omitted
            /\ GetOfSameKey /\ Immediately)
        => /\ (serializer = "cbor" \/ ret.written[1] # VNaN)
                => ret'.res = ret.written[1]
           /\ (serializer = "json" /\ ret.written[1] = VNaN)
                => ret'.res = VNull]_vars

\* a get answered with the value a default-TTL set wrote in this very
\* millisecond
C1_Witness ==
    /\ ret.op = "get" /\ ret.res = VNum
    /\ ret.keys[1] \in DOMAIN table
    /\ table[ret.keys[1]].created_at = now
    /\ table[ret.keys[1]].expire_at = now + defaultTtl
    /\ Cardinality(DOMAIN table) = 2

\* ---- C2 (as stated): get(k) at clock value t is a hit exactly when k has a
\* row with expire_at > t, and a miss (undefined, no failure) otherwise; so
\* after set(k, v, s) with s > 0 at instant w, get(k) returns v while
\* t < w + 1000 * s and misses from then on.
C2_GetHitsWhileLive ==
    [][/\ GetStep =>
            /\ ret'.out = Ok
            /\ (ret'.res # Undefined) <=>
                    /\ ret'.keys[1] \in DOMAIN table
                    /\ table[ret'.keys[1]].expire_at > now'
       /\ (ret.op = "set" /\ Wrote(ret) /\ ret.ttl # Omitted /\ GetOfSameKey) =>
            ret'.res = IF now' < ret.t + MsPerSecond * ret.ttl[1]
                       THEN ret.written[1] ELSE Undefined]_vars

\* ---- C2 (amended): as stated, with the value of a hit being what the codec
\* decodes from the row's payload: v itself, except null for NaN under json.
C2_GetHitsWhileLiveCodecImage ==
    [][/\ GetStep =>
            /\ ret'.out = Ok
            /\ ret'.res = IF /\ ret'.keys[1] \in DOMAIN table
                             /\ table[ret'.keys[1]].expire_at > now'
                          THEN Deserialize(serializer, table[ret'.keys[1]].val)
                          ELSE Undefined
            /\ (ret'.res # Undefined) <=>
                    /\ ret'.keys[1] \in DOMAIN table
                    /\ table[ret'.keys[1]].expire_at > now'
       /\ (ret.op = "set" /\ Wrote(ret) /\ ret.ttl # Omitted /\ GetOfSameKey) =>
            ret'.res = IF now' < ret.t + MsPerSecond * ret.ttl[1]
                       THEN IF serializer = "json" /\ ret.written[1] = VNaN
                            THEN VNull ELSE ret.written[1]
                       ELSE Undefined]_vars

\* a get that misses at the very instant a one-second row expires, the row
\* still being in the table
C2_Witness ==
    /\ ret.op = "get" /\ ret.res = Undefined
    /\ ret.keys[1] \in DOMAIN table
    /\ table[ret.keys[1]].expire_at = now
    /\ table[ret.keys[1]].created_at = now - MsPerSecond

\* ---- C3 (as stated): set(k, v, ttl) with ttl < 0 followed by get(k) is a
\* miss, in every state.
C3_NegativeSetThenGetMisses ==
    [][(ret.op = "set" /\ NegativeTtl(ret) /\ GetOfSameKey)
        => ret'.res = Undefined]_vars

\* ---- C3 (amended): set(k, v, ttl) with ttl < 0 writes nothing and fails
\* not, so the get(k) that follows returns what the table held for k before
\* the call: a miss when k had no live row, the old value otherwise.
C3_NegativeSetWritesNothing ==
    [][/\ (SetStep /\ NegativeTtl(ret')) =>
            /\ ret'.out = Ok /\ ~Wrote(ret')
            /\ table' = table /\ lastPurgeTime' = lastPurgeTime
       /\ (ret.op = "set" /\ NegativeTtl(ret) /\ GetOfSameKey) =>
            ret'.res = IF /\ ret.keys[1] \in DOMAIN table
                          /\ table[ret.keys[1]].expire_at > now'
                       THEN Deserialize(serializer, table[ret.keys[1]].val)
                       ELSE Undefined]_vars

\* a set with a negative ttl has returned while its key holds a live row
C3_Witness ==
    /\ ret.op = "set" /\ NegativeTtl(ret) /\ ret.out = Ok
    /\ ret.keys[1] \in DOMAIN table
    /\ table[ret.keys[1]].expire_at > now

\* ---- C4: set(k, v, 0) with an accepted v writes a row whose expire_at is
\* the clock value the set read, replacing any row of k; every get(k) after
\* it misses until k is written again.
C4_ZeroTtlExpiredOnArrival ==
    [][/\ (SetStep /\ ret'.ttl = <<0>> /\ ret'.out = Ok) =>
            /\ Wrote(ret')
            /\ ret'.t = now
            /\ ret'.keys[1] \in DOMAIN table'
            /\ table'[ret'.keys[1]].expire_at = now
            /\ table'[ret'.keys[1]].val = Serialize(serializer, ret'.written[1])
       /\ (ret.op = "set" /\ ret.ttl = <<0>> /\ Wrote(ret) /\ GetOfSameKey) =>
            ret'.res = Undefined
       /\ (GetStep /\ ret'.keys[1] \in DOMAIN table
                   /\ table[ret'.keys[1]].expire_at <= table[ret'.keys[1]].created_at) =>
            ret'.res = Undefined]_vars

\* a get has missed on a row written with ttl 0 in this very millisecond
C4_Witness ==
    /\ ret.op = "get" /\ ret.res = Undefined
    /\ ret.keys[1] \in DOMAIN table
    /\ table[ret.keys[1]].expire_at = now
    /\ table[ret.keys[1]].created_at = now

\* ---- C5: del(k) never fails; afterwards k has no row and get(k) misses;
\* the rows of the other keys and the purge cursor are as before.
C5_DelRemovesOnlyItsKey ==
    [][/\ DelStep =>
            /\ ret'.out = Ok
            /\ ret'.keys[1] \notin DOMAIN table'
            /\ DOMAIN table' = (DOMAIN table) \ {ret'.keys[1]}
            /\ \A o \in DOMAIN table' : table'[o] = table[o]
            /\ lastPurgeTime' = lastPurgeTime
       /\ (ret.op = "del" /\ GetOfSameKey) => ret'.res = Undefined]_vars

\* a del has removed a row and left the row of the other key
C5_Witness ==
    /\ ret.op = "del"
    /\ DOMAIN table = Keys \ {ret.keys[1]}
    /\ lastPurgeTime > 0

\* ---- C6: after reset() the table holds no row: until the next write,
\* keys() is empty, get(k) misses and ttl(k) is negative for every k.
C6_ResetEmptiesTable ==
    [][/\ ResetStep => (ret'.out = Ok /\ DOMAIN table' = {})
       /\ ret.op = "reset" =>
            /\ DOMAIN table = {}
            /\ KeysStep => ret'.resKeys = {}
            /\ GetStep => ret'.res = Undefined
            /\ TtlStep => ret'.resNum < 0]_vars

\* a reset has returned after the clock advanced and a read swept
C6_Witness ==
    /\ ret.op = "reset" /\ table = <<>>
    /\ lastPurgeTime > InitNow

\* ------------------------------------------------------------ batch claims
MgetStep == ret'.op = "mget" /\ mget(ret'.keys)
MsetStep == ret'.op = "mset" /\ (nticks' = nticks \/ table' # table)

\* what get(k) answers from table tbl at clock value t (C2)
GetAnswer(tbl, k, t) ==
    IF k \in DOMAIN tbl /\ tbl[k].expire_at > t
    THEN Deserialize(serializer, tbl[k].val)
    ELSE Undefined

\* the table after set(key, value, ttl) for each pair in turn, every clock
\* read giving t
RECURSIVE SetEach(_, _, _, _, _)
SetEach(tbl, ks, vs, ttlValue, t) ==
    IF ks = <<>> THEN tbl
    ELSE SetEach(SetRow(tbl, serializer, Head(ks), Head(vs), ttlValue, t, t),
                 Tail(ks), Tail(vs), ttlValue, t)

\* the value of the last pair of a batch that has key k
LastValue(ks, vs, k) ==
    vs[CHOOSE i \in 1..Len(ks) :
          ks[i] = k /\ \A j \in (i + 1)..Len(ks) : ks[j] # k]

\* ---- C7: mget(k1..kn) returns n slots in the order of the keys, slot i
\* being what get(ki) returns at the same instant, for absent, expired and
\* repeated keys and for no key at all.
C7_MgetSlotsAreGets ==
    [][/\ MgetStep =>
            /\ ret'.out = Ok
            /\ Len(ret'.resSeq) = Len(ret'.keys)
            /\ \A i \in 1..Len(ret'.keys) :
                  ret'.resSeq[i] = GetAnswer(table, ret'.keys[i], now')
       /\ (ret.op = "mget" /\ GetStep /\ now' = ret.t) =>
            \A i \in 1..Len(ret.keys) :
                ret.keys[i] = ret'.keys[1] => ret.resSeq[i] = ret'.res]_vars

\* an mget has answered a miss for an expired row that is still in the table
\* and, after it, a hit for the other key
C7_Witness ==
    /\ ret.op = "mget" /\ ret.keys = <<"b", "a">>
    /\ ret.resSeq = <<Undefined, VNum>>
    /\ "b" \in DOMAIN table

C9_NegativeMsetThenMgetMisses ==
    [][(ret.op = "mset" /\ NegativeTtl(ret) /\ MgetStep /\ ret'.keys = ret.keys)
        => \A i \in 1..Len(ret'.keys) : ret'.resSeq[i] = Undefined]_vars

\* ---- C9 (amended): mset(pairs, -1) writes nothing and fails not, so an mget
\* over the keys of the batch returns what the table held for them before
\* the call: undefined for a key without a live row, the old value otherwise.
C9_NegativeMsetWritesNothing ==
    [][/\ (MsetStep /\ NegativeTtl(ret')) =>
            /\ ret'.out = Ok /\ ~Wrote(ret')
            /\ table' = table /\ lastPurgeTime' = lastPurgeTime
       /\ (ret.op = "mset" /\ NegativeTtl(ret) /\ MgetStep /\ ret'.keys = ret.keys) =>
            \A i \in 1..Len(ret'.keys) :
                ret'.resSeq[i] = GetAnswer(table, ret.keys[i], now')]_vars

\* an mset with a negative ttl has returned while a key of its batch holds a
\* live row
C9_Witness ==
    /\ ret.op = "mset" /\ NegativeTtl(ret) /\ ret.out = Ok
    /\ Len(ret.keys) = 2
    /\ \E i \in 1..2 : /\ ret.keys[i] \in DOMAIN table
                       /\ table[ret.keys[i]].expire_at > now

DefaultRejected == {Undefined, VNull, VFn}

\* ---- C11 (as stated): with the default predicate, set(k, v, ttl) with v
\* undefined, null or a function raises NoCacheableError for every key and
\* every ttl argument, omitted, positive, zero or negative, and leaves the
\* table unchanged.
C11_RejectedValueAlwaysRaises ==
    [][\A v \in DefaultRejected :
          (predicate = "default" /\ ret'.op = "set"
                /\ set(ret'.keys[1], v, ret'.ttl)) =>
              /\ ret'.out = NoCacheableError
              /\ table' = table]_vars

\* ---- C11 (amended): with the default predicate, set(k, v, ttl) with v
\* undefined, null or a function leaves the table unchanged for every key and
\* every ttl argument; it raises NoCacheableError, naming v, when the
\* effective TTL is zero or positive, and returns without raising when the
\* effective TTL is negative.
C11_RejectedValueRaisesUnlessNegativeTtl ==
    [][\A v \in DefaultRejected :
          (predicate = "default" /\ ret'.op = "set"
                /\ set(ret'.keys[1], v, ret'.ttl)) =>
              /\ table' = table
              /\ ~Wrote(ret')
              /\ TtlValue(ret'.ttl, defaultTtl) >= 0 =>
                      (ret'.out = NoCacheableError /\ ret'.msg = v)
              /\ TtlValue(ret'.ttl, defaultTtl) < 0 => ret'.out = Ok]_vars

\* a set of a function has been refused by the default predicate while the
\* table holds a row
C11_Witness ==
    /\ predicate = "default"
    /\ ret.op = "set" /\ ret.out = NoCacheableError /\ ret.msg = VFn
    /\ ret.ttl = <<0>>
    /\ ret.keys[1] \in DOMAIN table

\* ---- C12: on a store built with a predicate p of its own, set(k, v) with a
\* non-negative effective TTL writes the row when p(v) holds and raises
\* NoCacheableError, writing nothing, when it does not: only-strings accepts
\* the string and refuses the number, null, undefined, the function and the
\* object; string-or-null accepts null as well, which the default refuses.
C12_CustomPredicateReplacesDefault ==
    [][\A v \in AllValues :
          (predicate # "default" /\ ret'.op = "set"
                /\ TtlValue(ret'.ttl, defaultTtl) >= 0
                /\ set(ret'.keys[1], v, ret'.ttl)) =>
              LET k == ret'.keys[1]
                  ttl == ret'.ttl
                  accepted == \/ v = VStr
                              \/ (predicate = "stringOrNull" /\ v = VNull)
              IN  /\ accepted =>
                        /\ ret'.out = Ok /\ ret'.written = <<v>>
                        /\ k \in DOMAIN table'
                        /\ table'[k].val = Serialize(serializer, v)
                        /\ table'[k].expire_at = now + TtlValue(ttl, defaultTtl)
                  /\ ~accepted =>
                        /\ ret'.out = NoCacheableError /\ ret'.msg = v
                        /\ table' = table]_vars

\* a store that takes strings and null has written null, and then refused a
\* number
C12_Witness ==
    /\ predicate = "stringOrNull"
    /\ ret.op = "set" /\ ret.out = NoCacheableError /\ ret.msg = VNum
    /\ \E k \in DOMAIN table : table[k].val = Serialize(serializer, VNull)

\* -------------------------------------- claims about ttl, keys and the upsert
\* ---- C13: for a key whose row is live at the clock value ttl(k) reads for
\* its result, ttl(k) returns expire_at minus that clock value, in
\* milliseconds: more than zero, no more than the row's lifetime, and, right
\* after the set that wrote the row, no more than 1000 times the TTL in
\* seconds that set used.
C13_TtlOfLiveKeyIsRemainingMillis ==
    [][/\ (TtlStep /\ ret'.keys[1] \in DOMAIN table
                 /\ table[ret'.keys[1]].expire_at > now') =>
            LET row == table[ret'.keys[1]]
            IN  /\ ret'.out = Ok
                /\ ret'.resNum = row.expire_at - now'
                /\ ret'.resNum > 0
                /\ ret'.resNum <= row.expire_at - row.created_at
                /\ \E secs \in TtlSeconds \cup DefaultTtls :
                      secs > 0 /\ ret'.resNum <= MsPerSecond * secs
       /\ (ret.op = "set" /\ Wrote(ret) /\ TtlStep /\ ret'.keys = ret.keys
                 /\ table[ret.keys[1]].expire_at > now') =>
            ret'.resNum <= (IF ret.ttl = Omitted THEN defaultTtl
                            ELSE MsPerSecond * ret.ttl[1])]_vars

\* ttl has answered one millisecond for a row written 999 ms before
C13_Witness ==
    /\ ret.op = "ttl" /\ ret.resNum = 1
    /\ ret.keys[1] \in DOMAIN table
    /\ table[ret.keys[1]].expire_at = now + 1
    /\ table[ret.keys[1]].created_at = now - 999

\* ---- C14 (as stated): ttl(k) returns a number below zero whenever k has no
\* row or its row has expire_at <= now, a row just written with TTL 0
\* included.
C14_TtlNegativeUnlessLive ==
    [][(TtlStep /\ (\/ ret'.keys[1] \notin DOMAIN table
                    \/ table[ret'.keys[1]].expire_at <= now'))
        => ret'.resNum < 0]_vars

\* ---- C15 (as stated): keys() returns exactly the keys that have a row with
\* expire_at > now at the call, whether or not a sweep ran.
C15_KeysListsLiveKeysOnly ==
    [][KeysStep =>
          ret'.resKeys = {k \in DOMAIN table : table[k].expire_at > now'}]_vars

ConstructStep == ret'.op = "construct" /\ construct
PeerGetStep == ret'.op = "peerGet" /\ peerGet(ret'.keys[1])
\* the TTL, in milliseconds, of the write r records
TtlOfWrite(r) == IF r.ttl = Omitted THEN defaultTtl ELSE MsPerSecond * r.ttl[1]

\* ---- C16 (as stated): building a second store with the same name and path
\* raises nothing and leaves the rows in the table, for the in-memory path
\* as for a file; a value set through one store is returned by get through
\* the other while it is live.
C16_SecondStoreSharesData ==
    [][/\ ConstructStep => (ret'.out = Ok /\ table' = table)
       /\ (peerOpen /\ ret.op = "set" /\ Wrote(ret) /\ PeerGetStep
                 /\ now' < ret.t + TtlOfWrite(ret)) =>
            ret'.res = ret.written[1]
       /\ (ret.op = "peerSet" /\ Wrote(ret) /\ GetStep
                 /\ now' < ret.t + TtlOfWrite(ret)) =>
            ret'.res = ret.written[1]]_vars

\* ---- C16 (amended): building a second store with the same name and path
\* raises nothing and leaves the rows in the table.  When the path is a file,
\* a value set through one store is returned by get through the other while
\* it is live.  When the path is the in-memory marker, each store has a
\* database of its own: a set through one store changes nothing the other
\* reads, and get through the other returns what that other store holds for
\* the key, a miss when it has never written it.
C16_SecondStoreSharesFileOnly ==
    [][/\ ConstructStep =>
            /\ ret'.out = Ok
            /\ table' = table /\ lastPurgeTime' = lastPurgeTime
       /\ (path = FilePath /\ peerOpen /\ ret.op = "set" /\ Wrote(ret)
                 /\ PeerGetStep /\ now' < ret.t + TtlOfWrite(ret)) =>
            ret'.res = ret.written[1]
       /\ (path = FilePath /\ ret.op = "peerSet" /\ Wrote(ret) /\ GetStep
                 /\ now' < ret.t + TtlOfWrite(ret)) =>
            ret'.res = ret.written[1]
       /\ (path = MemoryPath /\ ret'.op = "set") => peerTable' = peerTable
       /\ (path = MemoryPath /\ ret'.op = "peerSet") => table' = table
       /\ (path = MemoryPath /\ PeerGetStep) =>
            /\ ret'.res = GetAnswer(peerTable, ret'.keys[1], now')
            /\ table' = table
       /\ (path = MemoryPath /\ GetStep) =>
            /\ ret'.res = GetAnswer(table, ret'.keys[1], now')
            /\ peerTable' = peerTable]_vars

\* on a file, the second store has read, in its first sweep, the string
\* written in this very millisecond, the first store never having read
C16_Witness ==
    /\ path = FilePath /\ peerOpen
    /\ ret.op = "peerGet" /\ ret.res = VStr
    /\ lastPurgeTime = 0 /\ peerPurgeTime = now
    /\ table["a"].created_at = now

\* ------------------------------------------------ claims about codec failures
\* ---- C17 (as stated): when the payload of a live row cannot be
\* deserialized, get(k) returns undefined and raises nothing, and so does
\* mget for the slot of k.
C17_UndecodableRowIsAMiss ==
    [][/\ (GetStep /\ SelectThrows(table, serializer, ret'.keys[1], now')) =>
            (ret'.out = Ok /\ ret'.res = Undefined)
       /\ (MgetStep /\ \E i \in 1..Len(ret'.keys) :
                          SelectThrows(table, serializer, ret'.keys[i], now')) =>
            /\ ret'.out = Ok
            /\ Len(ret'.resSeq) = Len(ret'.keys)
            /\ \A i \in 1..Len(ret'.keys) :
                  SelectThrows(table, serializer, ret'.keys[i], now') =>
                      ret'.resSeq[i] = Undefined]_vars

\* ---- C18 (as stated): when serialize throws during set(k, v), no row of k
\* is written or replaced, the call ends without a failure, and the get(k)
\* that follows returns what the table held for k before the set.
C18_FailedSerializeIsDroppedSilently ==
    [][/\ \A v \in AllValues :
            (ret'.op = "set" /\ set(ret'.keys[1], v, ret'.ttl)
                  /\ TtlValue(ret'.ttl, defaultTtl) >= 0
                  /\ isCacheable(v) /\ SerializeThrows(serializer, v)) =>
                /\ table' = table
                /\ ret'.out = Ok
       /\ (ret.op = "set" /\ ret.out = CodecError /\ GetOfSameKey) =>
            ret'.res = GetAnswer(table, ret.keys[1], now')]_vars

\* ------------------------------------------------ claims about the default TTL
\* ---- C20: set and mset take the store's default TTL exactly when the ttl
\* argument is omitted and the given ttl whenever one is passed, 0 and
\* negative ones included: every row written expires at the call's clock
\* value plus that TTL; a call whose TTL is negative writes nothing and
\* raises nothing, so a store built with a negative default drops every set
\* and mset that omits ttl and still writes those that pass a ttl of 0 or
\* more; a value set without ttl on a store with default d is returned by get
\* until d seconds have passed and missed from then on.
C20_DefaultTtlOnlyWhenOmitted ==
    [][/\ ((SetStep \/ MsetStep) /\ ret'.out = Ok) =>
            LET ms == IF ret'.ttl = Omitted THEN defaultTtl
                      ELSE MsPerSecond * ret'.ttl[1]
            IN  /\ ms < 0 => (table' = table /\ ~Wrote(ret'))
                /\ ms >= 0 =>
                      /\ Wrote(ret')
                      /\ \A i \in 1..Len(ret'.keys) :
                            /\ ret'.keys[i] \in DOMAIN table'
                            /\ table'[ret'.keys[i]].expire_at = now + ms
       /\ (SetStep \/ MsetStep) =>
            ret'.out = (IF ret'.op = "mset" /\ ret'.keys = <<>>
                           /\ TtlValue(ret'.ttl, defaultTtl) >= 0
                        THEN SQLiteError ELSE Ok)
       /\ (ret.op = "set" /\ ret.ttl = Omitted /\ Wrote(ret) /\ GetOfSameKey) =>
            ret'.res = IF now' < ret.t + defaultTtl
                       THEN ret.written[1] ELSE Undefined
       /\ (ret.op = "set" /\ ret.ttl = Omitted /\ defaultTtl < 0
                 /\ GetOfSameKey) =>
            ret'.res = GetAnswer(table, ret.keys[1], now')]_vars

\* on a store built with a negative default TTL, a get has returned a value,
\* which a set that passed its own ttl wrote
C20_Witness ==
    /\ defaultTtl < 0
    /\ ret.op = "get" /\ ret.res = VNum
    /\ table[ret.keys[1]].expire_at = table[ret.keys[1]].created_at + MsPerSecond

\* ---------------------------------------------- claims about construction
\* ---- C21: when the engine cannot open the database or cannot run the
\* pragmas and the DDL, the call that builds the store rejects, with the
\* engine's error or with the initialization error made from it, and hands
\* out no store; a call on a store is therefore a call on one whose
\* construction succeeded, and none ends with an initialization error.
C21_InitFailureRejectsConstruction ==
    [][/\ ret'.op = "construct" =>
            /\ ~peerOpen
            /\ ret'.out \in {Ok, SQLiteError, InitializationError}
            /\ peerOpen' <=> ret'.out = Ok
            /\ \A stage \in EngineFailures : constructFails(stage) =>
                    /\ ret'.out # Ok
                    /\ ~peerOpen'
                    /\ table' = table /\ peerTable' = peerTable
       /\ ret'.op \in {"peerSet", "peerGet"} =>
            /\ peerOpen
            /\ ret'.out \notin {InitializationError, SQLiteError}]_vars

\* the second construction has failed on the pragmas or the DDL, after the
\* first store wrote a row, and there is no second store
C21_Witness ==
    /\ ret.op = "construct" /\ ret.out = InitializationError
    /\ ~peerOpen
    /\ "a" \in DOMAIN table

\* ------------------------------------------------- claims about the sweep
ReadStep == GetStep \/ MgetStep \/ KeysStep

\* the rows of tbl that a sweep at t keeps
KeptBySweep(tbl, t) == {k \in DOMAIN tbl : tbl[k].expire_at >= t}

\* ---- C22: a get, mget or keys call that reads the clock at t sweeps
\* exactly when t - last_purge_time >= one hour; the sweep deletes exactly
\* the rows with expire_at < t and sets the cursor to t; otherwise no row is
\* deleted and the cursor stays; the cursor moves at most once per call.
C22_ReadSweepsOncePerInterval ==
    [][ReadStep =>
         IF now - lastPurgeTime >= PurgeInterval
         THEN /\ DOMAIN table' = KeptBySweep(table, now)
              /\ \A k \in DOMAIN table' : table'[k] = table[k]
              /\ lastPurgeTime' = now
         ELSE /\ table' = table
              /\ lastPurgeTime' = lastPurgeTime]_vars

\* a read an hour to the millisecond after the first sweep has swept again
\* and kept the row that expires at this very instant
C22_Witness ==
    /\ ret.op \in {"get", "mget", "keys"}
    /\ lastPurgeTime = now
    /\ lastPurgeTime - InitNow = PurgeInterval
    /\ \E k \in DOMAIN table : table[k].expire_at = now

MdelStep == ret'.op = "mdel" /\ mdel(ret'.keys)

\* ---- C23: set, mset, del, mdel and reset leave the purge cursor as it was
\* and delete no row for being expired: a write keeps every row there was
\* and touches only rows of its own keys, a deletion removes the rows of its
\* keys and no other, expired or not, and reset removes every row.
C23_WritesNeverSweep ==
    [][/\ (SetStep \/ MsetStep) =>
            /\ lastPurgeTime' = lastPurgeTime
            /\ DOMAIN table \subseteq DOMAIN table'
            /\ \A k \in DOMAIN table \ Range(ret'.keys) : table'[k] = table[k]
       /\ (DelStep \/ MdelStep) =>
            /\ lastPurgeTime' = lastPurgeTime
            /\ DOMAIN table' = DOMAIN table \ Range(ret'.keys)
            /\ \A k \in DOMAIN table' : table'[k] = table[k]
       /\ ResetStep =>
            /\ lastPurgeTime' = lastPurgeTime
            /\ table' = <<>>]_vars

\* a del has run while a sweep was due, and the expired row of the other key
\* is still there
C23_Witness ==
    /\ ret.op = "del"
    /\ now - lastPurgeTime >= PurgeInterval
    /\ \E k \in DOMAIN table : k # ret.keys[1] /\ table[k].expire_at < now

\* ---- C24 as stated: the sweep is triggered only from get, mget and keys; a
\* ttl(key) call removes no row and leaves the purge cursor as it was.
C24_TtlNeverSweeps ==
    [][TtlStep => table' = table /\ lastPurgeTime' = lastPurgeTime]_vars

\* ---- C24 amended: the sweep is triggered from get, mget, keys and ttl and
\* from nothing else; a ttl(key) call at clock time t sweeps by the rule of
\* the reads: when t - last_purge_time >= one hour it deletes the rows with
\* expire_at < t and sets the cursor to t, otherwise it removes no row and
\* leaves the cursor.
C24_SweepFromReadsAndTtlOnly ==
    [][/\ TtlStep =>
            IF now - lastPurgeTime >= PurgeInterval
            THEN /\ DOMAIN table' = KeptBySweep(table, now)
                 /\ \A k \in DOMAIN table' : table'[k] = table[k]
                 /\ lastPurgeTime' = now
            ELSE /\ table' = table
                 /\ lastPurgeTime' = lastPurgeTime
       /\ lastPurgeTime' # lastPurgeTime => ReadStep \/ TtlStep]_vars

\* a ttl call, an hour or more after the store was built, has found no row
\* for its key and left the cursor at the instant it read the clock
C24_Witness ==
    /\ ret.op = "ttl" /\ ret.resNum = NoTtlSentinel
    /\ lastPurgeTime = now
    /\ now - InitNow >= PurgeInterval

\* ---- C25: whatever the calls and the clock advances before it, a get or
\* an mget returns what the reference store, which was given the same calls
\* and never purged, returns for it at the same clock reading: the sweeps
\* made so far, and the purge cursor, turn no hit into a miss and no miss
\* into a hit.
C25_ReadsAgreeWithUnpurgedStore ==
    [][/\ (ret'.op = "get" /\ get(ret'.keys[1]) /\ UNCHANGED aux) =>
            ret'.res = SelectLive(unpurged, serializer, ret'.keys[1], now')
       /\ (ret'.op = "mget" /\ mget(ret'.keys) /\ UNCHANGED aux) =>
            /\ ret'.out = Ok
            /\ ret'.resSeq = SelectLiveIn(unpurged, serializer, ret'.keys, now')]_vars

\* a get has hit after a sweep removed a row that the reference store still
\* holds
C25_Witness ==
    /\ ret.op = "get" /\ ret.res # Undefined
    /\ DOMAIN unpurged # DOMAIN table
    /\ lastPurgeTime > InitNow

\* ---------------------------------------- claims about calls in flight
\* the key has a row that was written and not deleted by a caller, and the
\* row has not expired at t
LiveAt(k, t) == k \in DOMAIN unpurged /\ unpurged[k].expire_at > t

\* what a read that resumed returned for the key at place i
Returned(r, i) == IF r.op = "get" THEN r.res ELSE r.resSeq[i]

\* ---- C26: with read calls of several callers in flight on two stores
\* opened on one file, each store with a purge cursor of its own, and under
\* every order of the steps between their awaits: a sweep deletes no row
\* with expire_at > now; a get or mget returns the written value for every
\* key whose row is live when its SELECT runs; and it returns a miss for
\* every key whose row has expire_at <= now or is absent.
C26_RacingReadsStayCorrect ==
    [][\A c \in Callers :
          /\ sweep(c) =>
                /\ \A k \in DOMAIN table \ DOMAIN table' : table[k].expire_at <= now
                /\ \A k \in DOMAIN table' : table'[k] = table[k]
          /\ select(c) =>
                \A i \in 1..Len(pending[c].keys) :
                    LET k == pending[c].keys[i]
                    IN  /\ LiveAt(k, now) =>
                              Returned(ret', i) = Deserialize(serializer, unpurged[k].val)
                        /\ ~LiveAt(k, now) => Returned(ret', i) = Undefined]_vars

\* an mget of the first store has resumed and hit on the key written through
\* the second store, after both stores swept and an expired row was removed
\* while another read of the first store waits at its await
C26_Witness ==
    /\ ret.op = "mget" /\ ret.resSeq[2] # Undefined /\ ret.resSeq[1] = Undefined
    /\ lastPurgeTime > 0 /\ peerPurgeTime > 0
    /\ "a" \in DOMAIN unpurged \ DOMAIN table
    /\ pending["c1"].stage = "select"

\* --------------------------------------- claims about the rows' instants
\* ---- C27: every row that set or mset writes has expire_at = created_at +
\* the call's TTL in milliseconds, so expire_at >= created_at, also when the
\* clock advances while the call runs.
C27_ExpiryIsCreationPlusTtl ==
    [][((SetStep \/ MsetStep) /\ Wrote(ret')) =>
          \A k \in Range(ret'.keys) :
              /\ table'[k].expire_at = table'[k].created_at + TtlOfWrite(ret')
              /\ table'[k].expire_at >= table'[k].created_at]_vars

\* ---- C28: the rows written by one mset call all carry the same created_at
\* and the same expire_at, also when the clock advances while the call
\* builds its bindings.
C28_BatchSharesItsInstants ==
    [][(MsetStep /\ Wrote(ret')) =>
          \A k1, k2 \in Range(ret'.keys) :
              /\ table'[k1].created_at = table'[k2].created_at
              /\ table'[k1].expire_at = table'[k2].expire_at]_vars

\* ---- C29: a set or an mset whose TTL, given or taken from the store's
\* default, is negative raises nothing and leaves the table, the row of its
\* own key included, and the purge cursor as they were.
C29_NegativeTtlIsANoOp ==
    [][((SetStep \/ MsetStep) /\ TtlOfWrite(ret') < 0) =>
          /\ ret'.out = Ok
          /\ ~Wrote(ret')
          /\ table' = table
          /\ lastPurgeTime' = lastPurgeTime]_vars

\* on a store built with a negative default TTL, a set without ttl has
\* returned and the row its key had, written with a ttl passed, is there
C29_Witness ==
    /\ defaultTtl < 0
    /\ ret.op = "set" /\ ret.ttl = Omitted /\ ret.out = Ok
    /\ ret.keys[1] \in DOMAIN table

\* ---- C30: mdel(k1..kn) raises nothing whether its keys have rows or not;
\* it removes the rows of the given keys and leaves the rows of every other
\* key as they were, and a get of a given key right after it is a miss.
C30_MdelRemovesGivenKeysOnly ==
    [][/\ MdelStep =>
            /\ ret'.out = Ok
            /\ DOMAIN table' = DOMAIN table \ Range(ret'.keys)
            /\ \A k \in DOMAIN table' : table'[k] = table[k]
       /\ (ret.op = "mdel" /\ GetStep /\ ret'.keys[1] \in Range(ret.keys)) =>
            ret'.res = Undefined]_vars

\* an mdel given two keys has returned, and the live row of a key that was
\* not among them is there
C30_Witness ==
    /\ ret.op = "mdel" /\ ret.out = Ok /\ Len(ret.keys) = 2
    /\ \E k \in DOMAIN table : k \notin Range(ret.keys) /\ table[k].expire_at > now

\* --------------------------------------- claims about the class-based store
\* ---- C31: whatever way the construction of a class-based store ends,
\* onOpen has been called exactly once and onReady exactly once by then, and
\* when opening the database or making the table failed, a callback was
\* called with the error.
C31_EachCallbackOnce ==
    boot.stage \in {"ready", "failed"} =>
        /\ Len(boot.onOpen) = 1
        /\ Len(boot.onReady) = 1
        /\ boot.stage = "failed" =>
               SQLiteError \in Range(boot.onOpen) \cup Range(boot.onReady)

\* ---- C32: mget(k1..kn) of the class-based store returns one slot for each
\* requested key, in the order of the request: the value of a key that has a
\* live row, the miss for a key whose row is absent or expired, a repeated
\* key answered at each of its places.
C32_ClassMgetSlotPerKey ==
    [][(ret'.op = "classMget" /\ classMget(ret'.keys)) =>
          /\ Len(ret'.resSeq) = Len(ret'.keys)
          /\ \A i \in 1..Len(ret'.keys) :
                ret'.resSeq[i] =
                    IF ret'.keys[i] \in DOMAIN table
                          /\ table[ret'.keys[i]].expire_at > now
                    THEN SafeDeserialize(serializer, table[ret'.keys[i]].val)
                    ELSE Miss]_vars

\* ------------------------------------------ claims about the purge cursor
\* the cursors are not ahead of the clock, and no row of a table expires
\* before the cursor of a store that sweeps that table
CursorsBehindRows ==
    /\ lastPurgeTime <= now
    /\ peerPurgeTime <= now
    /\ \A k \in DOMAIN table : table[k].expire_at >= lastPurgeTime
    /\ \A k \in DOMAIN PeerDb : peerOpen => PeerDb[k].expire_at >= peerPurgeTime

\* ---- C33: with a clock that does not go back, in every reachable state
\* the purge cursor of a store is at most the clock value, no step makes it
\* smaller, and every row in a table expires at or after the cursor of each
\* store that has swept that table.
C33_CursorBoundsClockAndRows ==
    [][/\ lastPurgeTime' >= lastPurgeTime
       /\ peerPurgeTime' >= peerPurgeTime
       /\ CursorsBehindRows
       /\ CursorsBehindRows']_vars

\* both stores have swept the file, the first one a second time an hour or
\* more after it was built, and the table holds a row
C33_Witness ==
    /\ path = FilePath /\ peerOpen
    /\ lastPurgeTime >= InitNow + PurgeInterval
    /\ peerPurgeTime >= InitNow
    /\ lastPurgeTime # peerPurgeTime
    /\ table # <<>>

\* ---- C34: get, mget, keys and ttl insert no row and change no row's
\* value, created_at or expire_at, and remove no row with expire_at >= now:
\* all they may do to the table is to delete rows with expire_at < now.
C34_ReadsOnlyDeleteExpiredRows ==
    [][(ReadStep \/ TtlStep) =>
          /\ DOMAIN table' \subseteq DOMAIN table
          /\ \A k \in DOMAIN table' : table'[k] = table[k]
          /\ \A k \in DOMAIN table \ DOMAIN table' : table[k].expire_at < now]_vars

\* a keys call, a wait after the store was built, has swept and lists a key:
\* every row left expires now or later
C34_Witness ==
    /\ ret.op = "keys" /\ ret.resKeys # {}
    /\ lastPurgeTime = now /\ now > InitNow
    /\ \A k \in DOMAIN table : table[k].expire_at >= now

\* ------------------------------------ claims about writes during a read
\* ---- C35 as stated: what get(k) returns is fixed when it is called: no
\* step that another caller takes while the get waits at its await, a set or
\* a del of k among them, changes the answer the get will resolve to.
C35_GetAnswersFromTableAtCall ==
    [][\A c \in Callers :
          (/\ pending[c].op = "get" /\ pending[c].stage = "select"
           /\ pending'[c] = pending[c]) =>
              SelectLive(table', serializer, pending[c].keys[1], now')
                  = SelectLive(table, serializer, pending[c].keys[1], now')]_vars

\* ---- C35 amended: what get(k) returns reflects the table at the moment
\* its SELECT runs, after the await on the purge routine: it is the value of
\* the row that the sets and deletions completed by then have left for k,
\* those invoked after the get was called included, if that row is live at
\* the clock value of the SELECT, and a miss otherwise.
C35_GetAnswersFromTableAtResume ==
    [][\A c \in Callers :
          (select(c) /\ pending[c].op = "get") =>
              ret'.res = SelectLive(unpurged, serializer, pending[c].keys[1], now)]_vars

\* a get has returned the value of a row that was written after the get was
\* called
C35_Witness ==
    /\ ret.op = "get" /\ ret.res = VNum
    /\ "a" \in DOMAIN table
    /\ table["a"].created_at > ret.t

\* ------------------------------------------ claims about eventual deletion
\* the clock is, or by advancing to its horizon will be, an hour past the
\* purge cursor
SweepWillBeDue == InitNow + LiveHorizon - lastPurgeTime >= PurgeInterval

ExpiredRow(k) == k \in DOMAIN table /\ table[k].expire_at < now

\* ---- C36: while the clock keeps advancing and read-path calls (get, mget,
\* keys, ttl) keep being issued on a store, every row that has expired is
\* eventually deleted from the table, unless it is rewritten first; and no
\* step other than a read-path call deletes an expired row that it was not
\* asked to delete, however far the clock advances, so without read-path
\* calls the store puts no bound on the time between expiry and deletion.
C36_ExpiredRowsEventuallyDeleted ==
    /\ \A k \in Keys :
          (ExpiredRow(k) /\ SweepWillBeDue) ~> ~ExpiredRow(k)
    /\ [][~(ReadStep \/ TtlStep) =>
             \A k \in DOMAIN table :
                 \/ k \in DOMAIN table'
                 \/ DelStep /\ k \in Range(ret'.keys)]_vars

\* a row that expired, and that no caller deleted or rewrote, is gone from
\* the table after a read made an hour or more after the store was built
C36_Witness ==
    /\ \E k \in DOMAIN unpurged \ DOMAIN table : unpurged[k].expire_at < now
    /\ ret.op \in {"get", "mget", "keys", "ttl"}
    /\ lastPurgeTime = now
    /\ now - InitNow >= PurgeInterval

====
